---- MODULE Spec2Model ----
(***************************************************************************)
(* The event DAG store of src/src/main.rs: event framing and hashing, the  *)
(* orphan buffer, attachment (Model::add / Model::reorganize) and the fork *)
(* choice (Model::find_head).                                              *)
(*                                                                         *)
(* A store is a record with the fields of struct Model plus `nodes`, the   *)
(* heap of Arc<EventNode> allocations: an EventNodePtr is an index into    *)
(* `nodes`, so two nodes holding the same event stay distinguishable.      *)
(* Text (String) is a sequence of its UTF-8 bytes.                         *)
(***************************************************************************)
EXTENDS Integers, Sequences, FiniteSets, TLC

\* model and peer are the stores of two replicas, attached the events of which each
\* was passed to add; wire is a buffer of encoded bytes, sent the event it was
\* encoded from and decoded the result of decoding it (each an Option: <<>> or <<x>>).
VARIABLES model, peer, attached, wire, sent, decoded, lock, trav, writer

vars == <<model, peer, attached, wire, sent, decoded, lock, trav, writer>>

\* ------------------------------------------------------------------ bounds
\* Nodes allocated in one store (the genesis node included).
MaxNodes == 5
\* Nodes allocated in each of the two replicas compared (the genesis node included).
MaxReplicaNodes == 3
\* The nodes a store holds at most while traversals run beside the writer.
MaxConcurrentNodes == 3

\* ------------------------------------------------------------ event framing
\* type EventId = [u8; 32]
HashLen == 32

Byte == 0..255

ZeroHash == [i \in 1..HashLen |-> 0]

\* u64::encode: the integer in little-endian order on w bytes.
RECURSIVE LeBytes(_, _)
LeBytes(n, w) == IF w = 0 THEN <<>> ELSE <<n % 256>> \o LeBytes(n \div 256, w - 1)

\* VarInt::encode for a length: one byte below 0xfd, else 0xfd and a u16.
EncodeVarInt(n) == IF n < 253 THEN <<n>> ELSE <<253>> \o LeBytes(n, 2)

\* String::encode: the VarInt length, then the bytes.
EncodeString(s) == EncodeVarInt(Len(s)) \o s

\* #[derive(SerialEncodable)] struct PrivMsgEvent: the fields in declaration order.
EncodePrivMsgEvent(event) == EncodeString(event.nick) \o EncodeString(event.msg)

\* impl Encodable for EventAction: the type id byte 0, then the PrivMsgEvent.
EncodeEventAction(action) == <<0>> \o EncodePrivMsgEvent(action)

\* Mutant of encode: the action is written before the previous_event_hash.
encode_ActionFirst(event) ==
    EncodeEventAction(event.action) \o event.previous_event_hash \o LeBytes(event.timestamp, 8)

\* #[derive(SerialEncodable)] struct Event: the fields in declaration order.
encode(event) ==
    event.previous_event_hash \o EncodeEventAction(event.action) \o LeBytes(event.timestamp, 8)

\* Sha256 stands for a collision-free digest of HashLen bytes: byte j of the input is
\* absorbed into lane ((j - 1) % HashLen) + 1, and the length into every lane.
\* Absorb is one lane: the bytes at positions j, j + HashLen, ... folded into it.
RECURSIVE Absorb(_, _, _)
Absorb(lane, bytes, j) ==
    IF j > Len(bytes) THEN lane
    ELSE Absorb((lane * 31 + bytes[j] + j) % 256, bytes, j + HashLen)

Sha256(bytes) == [i \in 1..HashLen |-> Absorb((Len(bytes) + i) % 256, bytes, i)]

\* Event::hash
hash(event) == Sha256(encode(event))

create_message(previous_event_hash, nick, msg, timestamp) ==
    [previous_event_hash |-> previous_event_hash,
     action |-> [variant |-> "PrivMsg", nick |-> nick, msg |-> msg],
     timestamp |-> timestamp]

\* Result<T>: Ok carries the value and the unread rest of the reader, Err the error.
Ok(value, rest) == [ok |-> TRUE, value |-> value, rest |-> rest]
Err(error) == [ok |-> FALSE, error |-> error]

\* ReadExt: n bytes off the reader, an io error when fewer are left.
ReadExact(d, n) ==
    IF Len(d) < n THEN Err("Io") ELSE Ok(SubSeq(d, 1, n), SubSeq(d, n + 1, Len(d)))

\* The unsigned integer that little-endian bytes stand for.
RECURSIVE FromLe(_)
FromLe(bytes) == IF bytes = <<>> THEN 0 ELSE Head(bytes) + 256 * FromLe(Tail(bytes))

\* A fixed-width integer after a VarInt marker byte, refused when a shorter form fits.
DecodeWide(d, w, least) ==
    LET r == ReadExact(d, w)
    IN IF ~r.ok THEN r
       ELSE IF FromLe(r.value) < least THEN Err("NonMinimalVarInt")
       ELSE Ok(FromLe(r.value), r.rest)

\* VarInt::decode
DecodeVarInt(d) ==
    LET n == ReadExact(d, 1)
    IN IF ~n.ok THEN n
       ELSE IF n.value[1] = 255 THEN DecodeWide(n.rest, 8, 65536 * 65536)
       ELSE IF n.value[1] = 254 THEN DecodeWide(n.rest, 4, 65536)
       ELSE IF n.value[1] = 253 THEN DecodeWide(n.rest, 2, 253)
       ELSE Ok(n.value[1], n.rest)

\* String::decode: the VarInt length, that many bytes, then String::from_utf8
\* (text is ASCII here: a byte above 127 is not valid).
DecodeString(d) ==
    LET len == DecodeVarInt(d)
    IN IF ~len.ok THEN len
       ELSE LET ret == ReadExact(len.rest, len.value)
            IN IF ~ret.ok THEN ret
               ELSE IF \E i \in 1..Len(ret.value) : ret.value[i] > 127
               THEN Err("String was not valid UTF8")
               ELSE ret

\* Mutant of DecodePrivMsgEvent: msg is read before nick.
DecodePrivMsgEvent_MsgFirst(d) ==
    LET msg == DecodeString(d)
    IN IF ~msg.ok THEN msg
       ELSE LET nick == DecodeString(msg.rest)
            IN IF ~nick.ok THEN nick
               ELSE Ok([variant |-> "PrivMsg", nick |-> nick.value, msg |-> msg.value], nick.rest)

\* #[derive(SerialDecodable)] struct PrivMsgEvent: the fields in declaration order.
DecodePrivMsgEvent(d) ==
    LET nick == DecodeString(d)
    IN IF ~nick.ok THEN nick
       ELSE LET msg == DecodeString(nick.rest)
            IN IF ~msg.ok THEN msg
               ELSE Ok([variant |-> "PrivMsg", nick |-> nick.value, msg |-> msg.value], msg.rest)

\* Mutant of DecodeEventAction: the match has a catch-all arm decoding a PrivMsgEvent.
DecodeEventAction_AnyTypeId(d) ==
    LET type_id == ReadExact(d, 1)
    IN IF ~type_id.ok THEN type_id ELSE DecodePrivMsgEvent(type_id.rest)

\* impl Decodable for EventAction
DecodeEventAction(d) ==
    LET type_id == ReadExact(d, 1)
    IN IF ~type_id.ok THEN type_id
       ELSE IF type_id.value[1] = 0 THEN DecodePrivMsgEvent(type_id.rest)
       ELSE Err("Bad type ID byte for Event")

\* #[derive(SerialDecodable)] struct Event: the fields in declaration order.
decode(d) ==
    LET previous_event_hash == ReadExact(d, HashLen)
    IN IF ~previous_event_hash.ok THEN previous_event_hash
       ELSE LET action == DecodeEventAction(previous_event_hash.rest)
            IN IF ~action.ok THEN action
               ELSE LET timestamp == ReadExact(action.rest, 8)
                    IN IF ~timestamp.ok THEN timestamp
                       ELSE Ok([previous_event_hash |-> previous_event_hash.value,
                                action |-> action.value,
                                timestamp |-> FromLe(timestamp.value)],
                               timestamp.rest)

\* ------------------------------------------------------------------- store
\* parent: Option<EventNodePtr>; None is 0, Some(p) is the index p into nodes.
None == 0

EventNode(parent, event) == [parent |-> parent, event |-> event, children |-> <<>>]

\* "root", "Let there be dark"
RootNick == <<114, 111, 111, 116>>
RootMsg == <<76, 101, 116, 32, 116, 104, 101, 114, 101, 32, 98, 101, 32, 100, 97, 114, 107>>

\* Mutant of new: the root node is its own parent.
new_RootHasParent(now) ==
    LET root_node == [EventNode(None, create_message(ZeroHash, RootNick, RootMsg, now))
                        EXCEPT !.parent = 1]
        root_node_id == hash(root_node.event)
    IN [current_root |-> root_node_id,
        orphans |-> <<>>,
        event_map |-> (root_node_id :> 1),
        nodes |-> <<root_node>>]

\* Model::new; now is the value of get_current_time().
new(now) ==
    LET root_node == EventNode(None, create_message(ZeroHash, RootNick, RootMsg, now))
        root_node_id == hash(root_node.event)
    IN [current_root |-> root_node_id,
        orphans |-> <<>>,
        event_map |-> (root_node_id :> 1),
        nodes |-> <<root_node>>]

\* HashMap::insert: the entry for id is set, replacing any previous one.
MapInsert(map, id, ptr) ==
    [k \in DOMAIN map \cup {id} |-> IF k = id THEN ptr ELSE map[k]]

\* Mutant of AttachOrphan: the node is built with no parent link.
AttachOrphan_NoParent(m, orphan) ==
    LET parent == m.event_map[orphan.previous_event_hash]
        node == Len(m.nodes) + 1
        allocated == Append(m.nodes, EventNode(None, orphan))
        pushed == [allocated EXCEPT ![parent].children = Append(@, node)]
    IN [m EXCEPT !.nodes = pushed, !.event_map = MapInsert(m.event_map, hash(orphan), node)]

\* Mutant of AttachOrphan: the node is indexed but not pushed onto the child list.
AttachOrphan_NoPush(m, orphan) ==
    LET parent == m.event_map[orphan.previous_event_hash]
        node == Len(m.nodes) + 1
        allocated == Append(m.nodes, EventNode(parent, orphan))
    IN [m EXCEPT !.nodes = allocated, !.event_map = MapInsert(m.event_map, hash(orphan), node)]

\* Mutant of AttachOrphan: the node is inserted at the front of the child list.
AttachOrphan_PushFront(m, orphan) ==
    LET parent == m.event_map[orphan.previous_event_hash]
        node == Len(m.nodes) + 1
        allocated == Append(m.nodes, EventNode(parent, orphan))
        pushed == [allocated EXCEPT ![parent].children = <<node>> \o @]
    IN [m EXCEPT !.nodes = pushed, !.event_map = MapInsert(m.event_map, hash(orphan), node)]

\* The body of the loop of Model::reorganize for one orphan whose parent is indexed.
AttachOrphan(m, orphan) ==
    LET parent == m.event_map[orphan.previous_event_hash]
        node == Len(m.nodes) + 1
        allocated == Append(m.nodes, EventNode(parent, orphan))
        pushed == [allocated EXCEPT ![parent].children = Append(@, node)]
    IN [m EXCEPT !.nodes = pushed, !.event_map = MapInsert(m.event_map, hash(orphan), node)]

\* The loop of Model::reorganize over the orphans taken from the store. The local
\* remaining_orphans is dropped when the function returns: it is never stored back
\* into self.orphans, which std::mem::take left empty.
RECURSIVE ReorganizeLoop(_, _, _)
ReorganizeLoop(m, taken, remaining_orphans) ==
    IF taken = <<>> THEN m
    ELSE LET orphan == Head(taken)
         IN IF orphan.previous_event_hash \notin DOMAIN m.event_map
            THEN ReorganizeLoop(m, Tail(taken), Append(remaining_orphans, orphan))
            ELSE ReorganizeLoop(AttachOrphan(m, orphan), Tail(taken), remaining_orphans)

\* Model::reorganize; std::mem::take leaves self.orphans empty.
reorganize(m) == ReorganizeLoop([m EXCEPT !.orphans = <<>>], m.orphans, <<>>)

\* Model::add
add(m, event) == reorganize([m EXCEPT !.orphans = Append(@, event)])

\* Model::get_root; the expect fails when current_root is not a key of event_map.
get_root(m) == IF m.current_root \in DOMAIN m.event_map THEN m.event_map[m.current_root] ELSE None

\* Mutant of Replaces: a greater timestamp wins whatever the depth.
Replaces_TimestampFirst(m, grandchild_i, grandchild_node, current_max, current_node) ==
    \/ grandchild_i > current_max
    \/ /\ current_node # None
       /\ m.nodes[grandchild_node].event.timestamp > m.nodes[current_node].event.timestamp

\* Mutant of Replaces: ties on the depth are not broken.
Replaces_DepthOnly(m, grandchild_i, grandchild_node, current_max, current_node) ==
    grandchild_i > current_max

\* Mutant of Replaces: a leaf that ties on depth and timestamp replaces the current one.
Replaces_LastTieWins(m, grandchild_i, grandchild_node, current_max, current_node) ==
    \/ grandchild_i > current_max
    \/ /\ grandchild_i = current_max
       /\ m.nodes[grandchild_node].event.timestamp >= m.nodes[current_node].event.timestamp

\* The two branches of the fold of find_longest_chain that replace the current best:
\* a greater depth, or the same depth and a strictly greater timestamp.
Replaces(m, grandchild_i, grandchild_node, current_max, current_node) ==
    \/ grandchild_i > current_max
    \/ /\ grandchild_i = current_max
       /\ m.nodes[grandchild_node].event.timestamp > m.nodes[current_node].event.timestamp

\* Model::find_longest_chain: <<depth, leaf>>. FoldChildren is its for loop over
\* the children from position k on, with the current_max and current_node so far.
RECURSIVE find_longest_chain(_, _, _), FoldChildren(_, _, _, _, _, _)
FoldChildren(m, children, k, i, current_max, current_node) ==
    IF k > Len(children) THEN <<current_max, current_node>>
    ELSE LET r == find_longest_chain(m, children[k], i + 1)
         IN IF Replaces(m, r[1], r[2], current_max, current_node)
            THEN FoldChildren(m, children, k + 1, i, r[1], r[2])
            ELSE FoldChildren(m, children, k + 1, i, current_max, current_node)

find_longest_chain(m, parent_node, i) ==
    LET children == m.nodes[parent_node].children
    IN IF children = <<>> THEN <<i, parent_node>>
       ELSE FoldChildren(m, children, 1, i, 0, None)

\* Mutant of FoldPanics: the recursive call passes i where the code passes i + 1.
RECURSIVE ChainPanics(_, _, _), FoldPanics(_, _, _, _, _, _), FoldPanics_SameDepth(_, _, _, _, _, _)
FoldPanics_SameDepth(m, children, k, i, current_max, current_node) ==
    IF k > Len(children) THEN current_max = 0 \/ current_node = None
    ELSE \/ ChainPanics(m, children[k], i)
         \/ LET r == find_longest_chain(m, children[k], i)
            IN \/ (r[1] = current_max /\ current_node = None)
               \/ IF Replaces(m, r[1], r[2], current_max, current_node)
                  THEN FoldPanics(m, children, k + 1, i, r[1], r[2])
                  ELSE FoldPanics(m, children, k + 1, i, current_max, current_node)

\* Whether Model::find_longest_chain panics. FoldPanics is its for loop from child
\* k on: a panic in the recursive call, the expect on current_node in the
\* equal-depth branch, or after the loop assert_ne!(current_max, 0) and the expect
\* on current_node.
FoldPanics(m, children, k, i, current_max, current_node) ==
    IF k > Len(children) THEN current_max = 0 \/ current_node = None
    ELSE \/ ChainPanics(m, children[k], i + 1)
         \/ LET r == find_longest_chain(m, children[k], i + 1)
            IN \/ (r[1] = current_max /\ current_node = None)
               \/ IF Replaces(m, r[1], r[2], current_max, current_node)
                  THEN FoldPanics(m, children, k + 1, i, r[1], r[2])
                  ELSE FoldPanics(m, children, k + 1, i, current_max, current_node)

ChainPanics(m, parent_node, i) ==
    LET children == m.nodes[parent_node].children
    IN children # <<>> /\ FoldPanics(m, children, 1, i, 0, None)

\* Model::find_head
find_head(m) == find_longest_chain(m, get_root(m), 0)[2]

\* The outcome of a failed expect (a panic) where a number is returned.
Panic == -1

\* Model::find_height; HeightLoop is its while loop.
RECURSIVE HeightLoop(_, _, _)
HeightLoop(m, node, height) ==
    IF hash(m.nodes[node].event) = m.current_root THEN height
    ELSE IF m.nodes[node].parent = None THEN Panic
    ELSE HeightLoop(m, m.nodes[node].parent, height + 1)

find_height(m, node) == HeightLoop(m, node, 0)

\* Model::find_ancestor_depth; AncestorLoop is its while loop.
RECURSIVE AncestorLoop(_, _, _, _)
AncestorLoop(m, node_a, node_b, depth) ==
    IF hash(m.nodes[node_a].event) = hash(m.nodes[node_b].event) THEN depth
    ELSE IF m.nodes[node_a].parent = None \/ m.nodes[node_b].parent = None THEN Panic
    ELSE AncestorLoop(m, m.nodes[node_a].parent, m.nodes[node_b].parent, depth + 1)

find_ancestor_depth(m, node_a, node_b) == AncestorLoop(m, node_a, node_b, 0)

\* ------------------------------------------------------------------- tasks
\* The writer is the task that runs add; the other tasks run find_head.
Writer == 0

\* children.lock().await returns: the task owns the lock of the node's child list.
Acquire(held, node, owner) == held \cup {<<node, owner>>}

\* Mutant of Release: the guard is leaked, the lock stays held.
Release_Leak(held, node, owner) == held

\* The MutexGuard is dropped: at the return of find_longest_chain, or at the end of
\* the statement that pushes the node.
Release(held, node, owner) == held \ {<<node, owner>>}

\* The unwinding of a panic drops every guard the task holds.
ReleaseAll(held, owner) == {l \in held : l[2] # owner}

\* The first half of the attach of an orphan: the node is built with its parent
\* link and pushed onto the parent's child list.
PushChild(m, parent, orphan) ==
    LET node == Len(m.nodes) + 1
        allocated == Append(m.nodes, EventNode(parent, orphan))
    IN [m EXCEPT !.nodes = [allocated EXCEPT ![parent].children = Append(@, node)]]

\* The second half: the node is added to the table under id, its event's hash.
IndexNode(m, id, node) == [m EXCEPT !.event_map = MapInsert(m.event_map, id, node)]

\* The locals of one call of find_longest_chain; k is the position of the for loop.
Frame(parent_node, i) ==
    [parent_node |-> parent_node, i |-> i, k |-> 1, current_max |-> 0, current_node |-> None]

\* Mutant of CallFrame: the recursive call passes i where the code passes i + 1.
CallFrame_SameDepth(m, f) == Frame(m.nodes[f.parent_node].children[f.k], f.i)

\* The recursive call of the for loop on the child at position k.
CallFrame(m, f) == Frame(m.nodes[f.parent_node].children[f.k], f.i + 1)

\* The body of the for loop once the recursive call has returned r: the best so
\* far is replaced or kept, and the loop moves on.
FoldResult(m, f, r) ==
    IF Replaces(m, r[1], r[2], f.current_max, f.current_node)
    THEN [f EXCEPT !.k = @ + 1, !.current_max = r[1], !.current_node = r[2]]
    ELSE [f EXCEPT !.k = @ + 1]

\* The for loop of the innermost call goes on: with a child left, the recursive
\* call on it reaches its lock().await; with none, the call is about to return.
LoopOn(m, tr) ==
    LET f == tr.stack[Len(tr.stack)]
    IN IF f.k <= Len(m.nodes[f.parent_node].children)
       THEN [tr EXCEPT !.pc = "lock", !.stack = Append(@, CallFrame(m, f))]
       ELSE [tr EXCEPT !.pc = "return"]

\* A call of find_longest_chain returns r: the traversal is over when it was the
\* call on the root; otherwise the caller's loop takes r and goes on, or panics on
\* the expect of the equal-depth branch when it has no current_node.
ReturnTo(m, tr, r) ==
    LET callers == SubSeq(tr.stack, 1, Len(tr.stack) - 1)
    IN IF callers = <<>>
       THEN [tr EXCEPT !.pc = "done", !.stack = <<>>, !.result = r]
       ELSE LET f == callers[Len(callers)]
            IN IF r[1] = f.current_max /\ f.current_node = None
               THEN [tr EXCEPT !.pc = "panic", !.stack = <<>>]
               ELSE LoopOn(m, [tr EXCEPT !.stack =
                                   [callers EXCEPT ![Len(callers)] = FoldResult(m, f, r)]])

\* ---------------------------------------------------------------- inputs
GenesisTimes == {1}
Timestamps == {2, 3}
\* "alice", "bob"
Nicks == {<<97, 108, 105, 99, 101>>, <<98, 111, 98>>}
\* "delta"
ReplyNick == <<100, 101, 108, 116, 97>>
\* "msg"
MsgText == <<109, 115, 103>>

Genesis == new(1)

\* Messages posted on the genesis event, the replies to them, and the replies to those.
Level1 == {create_message(Genesis.current_root, n, MsgText, t) : n \in Nicks, t \in Timestamps}
Level2 == {create_message(hash(p), ReplyNick, MsgText, t) : p \in Level1, t \in Timestamps}
Level3 == {create_message(hash(p), ReplyNick, MsgText, t) : p \in Level2, t \in Timestamps}
\* The events passed to add: the messages, and the genesis event itself.
Universe == Level1 \cup Level2 \cup Level3 \cup {Genesis.nodes[1].event}

\* The events the two replicas are sent.
ReplicaEvents == Level1 \cup Level2

\* The events put on the wire: either parent id, empty and non-empty text, and
\* timestamps of one, two and four significant bytes.
CodecTexts == {<<>>, <<97>>, <<98, 111, 98>>}
CodecTimestamps == {0, 258, 16909060}
CodecEvents ==
    {create_message(p, n, t, ts) :
        p \in {ZeroHash, Genesis.current_root}, n \in CodecTexts,
        t \in {<<>>, MsgText}, ts \in CodecTimestamps}
\* Type id bytes no variant of EventAction has.
BadTypeIds == {1, 2, 255}

\* The tasks that run find_head beside the writer.
Traversals == {1, 2}
\* The events the writer is passed while they run: two messages posted on the
\* genesis event and a reply to the first.
ConcurrentEvents ==
    LET first == create_message(Genesis.current_root, <<97, 108, 105, 99, 101>>, MsgText, 2)
    IN {first,
        create_message(Genesis.current_root, <<98, 111, 98>>, MsgText, 3),
        create_message(hash(first), ReplyNick, MsgText, 3)}

\* ------------------------------------------------------------ properties
Range(seq) == {seq[i] : i \in DOMAIN seq}

\* No two events of the inputs share a digest.
Sha256CollisionFree ==
    LET events == Universe \cup CodecEvents \cup {Genesis.nodes[1].event}
    IN \A a, b \in events : hash(a) = hash(b) => a = b

\* The pairs <<node, edges from start>> met going down the child lists from start.
RECURSIVE Below(_, _, _)
Below(m, start, d) ==
    {<<start, d>>} \cup
    UNION {Below(m, c, d + 1) : c \in Range(m.nodes[start].children)}

\* The leaves reachable from the current root, each with its number of edges from it.
LeafDepths(m) == {p \in Below(m, get_root(m), 0) : m.nodes[p[1]].children = <<>>}

MaxLeafDepth(m) == CHOOSE d \in {p[2] : p \in LeafDepths(m)} : \A p \in LeafDepths(m) : p[2] <= d

DeepestLeaves(m) == {p[1] : p \in {q \in LeafDepths(m) : q[2] = MaxLeafDepth(m)}}

HeadId(m) == hash(m.nodes[find_head(m)].event)

\* C1: two stores created with the same genesis and passed the same set of events
\* in any two orders, which index the same set of events, have a head with the
\* same event id.
C1_HeadDeterministic ==
    (attached.model = attached.peer /\ DOMAIN model.event_map = DOMAIN peer.event_map)
        => HeadId(model) = HeadId(peer)

\* C2: attach is idempotent: attaching an event twice leaves the store (index,
\* child lists, orphan buffer) as attaching it once does.
C2_AttachIdempotent ==
    \A event \in Universe : add(add(model, event), event) = add(model, event)

\* C3: a child attached while its parent id is not in the index is in the orphan
\* buffer after that attach, and once the parent is attached the child is an indexed
\* node under the parent without being passed to attach again.
C3_OrphanResolved ==
    \A child \in Universe : \A parent \in Universe :
        (/\ child.previous_event_hash = hash(parent)
         /\ hash(parent) \notin DOMAIN model.event_map
         /\ parent.previous_event_hash \in DOMAIN model.event_map)
        => LET early == add(model, child)
               late == add(early, parent)
           IN /\ child \in Range(early.orphans)
              /\ hash(child) \in DOMAIN late.event_map
              /\ late.nodes[late.event_map[hash(child)]].parent = late.event_map[hash(parent)]

\* C4: head() returns a leaf whose number of edges from the current root is the
\* maximum over the leaves reachable from the root, so a leaf strictly deeper than
\* every other leaf is the head whatever the timestamps and the child list order.
C4_HeadIsDeepestLeaf ==
    LET r == find_longest_chain(model, get_root(model), 0)
    IN /\ <<r[2], r[1]>> \in LeafDepths(model)
       /\ r[1] = MaxLeafDepth(model)
       /\ find_head(model) \in DeepestLeaves(model)

\* C4 witness: the only deepest leaf is the head although a shallower leaf, met
\* first in the root's child list, has a greater timestamp.
C4_Witness ==
    /\ DeepestLeaves(model) = {find_head(model)}
    /\ MaxLeafDepth(model) >= 2
    /\ \E p \in LeafDepths(model) :
        /\ p[2] < MaxLeafDepth(model)
        /\ model.nodes[p[1]].event.timestamp > model.nodes[find_head(model)].event.timestamp
        /\ model.nodes[get_root(model)].children[1] = p[1]

\* C5: when several leaves are tied at the maximum depth and one of them has a
\* timestamp strictly greater than all the others, head() is that leaf.
C5_TieBreakByTimestamp ==
    \A n \in DeepestLeaves(model) :
        (/\ Cardinality(DeepestLeaves(model)) > 1
         /\ \A o \in DeepestLeaves(model) \ {n} :
                model.nodes[o].event.timestamp < model.nodes[n].event.timestamp)
        => find_head(model) = n

\* C5 witness: two leaves of different branches are tied at depth 2 or more, and the
\* head is the one of greater timestamp, which lies in the branch the root lists last.
C5_Witness ==
    LET root == model.nodes[get_root(model)]
        h == find_head(model)
    IN /\ Cardinality(DeepestLeaves(model)) > 1
       /\ MaxLeafDepth(model) >= 2
       /\ Len(root.children) >= 2
       /\ \A o \in DeepestLeaves(model) \ {h} :
              model.nodes[o].event.timestamp < model.nodes[h].event.timestamp
       /\ <<h, MaxLeafDepth(model) - 1>> \in Below(model, root.children[Len(root.children)], 0)

\* C6: with no attach performed, head() and root() are the same node, the genesis
\* node: no parent and a previous_event_hash of zero bytes.
C6_FreshStoreHeadIsRoot ==
    Len(model.nodes) = 1 =>
        /\ find_head(model) = get_root(model)
        /\ get_root(model) # None
        /\ model.nodes[get_root(model)].parent = None
        /\ model.nodes[get_root(model)].event.previous_event_hash = ZeroHash

C6_Witness == Len(model.nodes) = 1 /\ model.event_map = (model.current_root :> 1)

\* C7: attaching an event whose parent id is not in the index leaves the index and
\* every child list unchanged and keeps the event in the orphan buffer, after that
\* pass and after every later pass that does not find its parent.
C7_OrphanRetained ==
    \A event \in Universe :
        event.previous_event_hash \notin DOMAIN model.event_map
        => LET after == add(model, event)
           IN /\ after.event_map = model.event_map
              /\ after.nodes = model.nodes
              /\ event \in Range(after.orphans)
              /\ \A other \in Universe :
                    (other.previous_event_hash \notin DOMAIN model.event_map
                     /\ hash(other) # event.previous_event_hash)
                    => event \in Range(add(after, other).orphans)

\* C8: decoding the encoding of an event gives the event back, with nothing left
\* unread, and the event decoded has the EventId of the event encoded.
C8_RoundTrip ==
    (sent # <<>> /\ decoded # <<>> /\ wire = encode(sent[1]))
        => /\ decoded[1].ok
           /\ decoded[1].value = sent[1]
           /\ decoded[1].rest = <<>>
           /\ hash(decoded[1].value) = hash(sent[1])

\* C8 witness: an event with a parent id, a nick and a timestamp of several bytes
\* was encoded and decoded.
C8_Witness ==
    /\ sent # <<>> /\ decoded # <<>> /\ wire = encode(sent[1])
    /\ sent[1].previous_event_hash # ZeroHash
    /\ sent[1].action.nick # <<>>
    /\ sent[1].timestamp > 65535

\* C9 as stated: the encoding is the action tag, then the previous_event_hash, then
\* nick and msg, each length-prefixed, then the timestamp on 8 bytes.
C9_TagFirstLayout ==
    (sent # <<>> /\ wire = encode(sent[1]))
        => LET nick == sent[1].action.nick
               msg == sent[1].action.msg
           IN wire = <<0>> \o sent[1].previous_event_hash \o <<Len(nick)>> \o nick
                        \o <<Len(msg)>> \o msg \o LeBytes(sent[1].timestamp, 8)

\* C9 amended: the encoding is the 32-byte previous_event_hash, then the 1-byte
\* action tag, then nick and msg, each length-prefixed, then the timestamp on 8
\* bytes, little-endian.
C9_HashFirstLayout ==
    (sent # <<>> /\ wire = encode(sent[1]))
        => LET nick == sent[1].action.nick
               msg == sent[1].action.msg
               n == Len(nick)
               k == Len(msg)
           IN /\ Len(wire) = HashLen + 1 + (1 + n) + (1 + k) + 8
              /\ SubSeq(wire, 1, HashLen) = sent[1].previous_event_hash
              /\ wire[HashLen + 1] = 0
              /\ wire[HashLen + 2] = n
              /\ SubSeq(wire, HashLen + 3, HashLen + 2 + n) = nick
              /\ wire[HashLen + 3 + n] = k
              /\ SubSeq(wire, HashLen + 4 + n, HashLen + 3 + n + k) = msg
              /\ \A i \in 1..8 :
                    wire[HashLen + 3 + n + k + i] = LeBytes(sent[1].timestamp, 8)[i]

\* C9 witness: the wire holds the encoding of an event with a parent id and texts.
C9_Witness ==
    /\ sent # <<>> /\ wire = encode(sent[1])
    /\ sent[1].previous_event_hash # ZeroHash
    /\ sent[1].action.nick # <<>>
    /\ sent[1].action.msg # <<>>
    /\ sent[1].timestamp > 255

\* C10: decoding bytes whose action tag is not 0 fails with the format error and
\* yields no event.
C10_BadTypeIdRejected ==
    (decoded # <<>> /\ Len(wire) > HashLen /\ wire[HashLen + 1] # 0)
        => /\ ~decoded[1].ok
           /\ decoded[1].error = "Bad type ID byte for Event"
           /\ "value" \notin DOMAIN decoded[1]

\* C10 witness: bytes with the type id 255 were decoded.
C10_Witness ==
    /\ decoded # <<>> /\ Len(wire) > HashLen /\ wire[HashLen + 1] = 255
    /\ ~decoded[1].ok

\* The nodes the index maps an id to.
Indexed(m) == {m.event_map[id] : id \in DOMAIN m.event_map}

\* The node reached from node by k parent links (None when the chain is shorter).
RECURSIVE Ancestor(_, _, _)
Ancestor(m, node, k) ==
    IF k = 0 \/ node = None THEN node ELSE Ancestor(m, m.nodes[node].parent, k - 1)

\* C11: root() finds current_root in the index, and for every indexed node
\* height() panics nowhere and returns the number of edges between the node and the
\* root (0 for the root).
C11_NoInvariantViolation ==
    /\ get_root(model) # None
    /\ find_height(model, get_root(model)) = 0
    /\ \A n \in Indexed(model) :
        LET height == find_height(model, n)
        IN /\ height # Panic
           /\ <<n, height>> \in Below(model, get_root(model), 0)
           /\ Ancestor(model, n, height) = get_root(model)

\* C11 witness: an indexed node lies three edges below the root.
C11_Witness == \E n \in Indexed(model) : find_height(model, n) = 3

\* C12: the parent link is absent exactly for the current root node, and for every
\* other node the id of its parent's event is the node's previous_event_hash and the
\* node is an element of the parent's child list.
C12_ParentLinks ==
    \A n \in 1..Len(model.nodes) :
        LET node == model.nodes[n]
        IN /\ (node.parent = None) <=> (n = get_root(model))
           /\ node.parent # None =>
                /\ hash(model.nodes[node.parent].event) = node.event.previous_event_hash
                /\ n \in Range(model.nodes[node.parent].children)

\* C12 witness: a node two edges below the root, and two nodes holding the same event.
C12_Witness ==
    /\ \E n \in 1..Len(model.nodes) : find_height(model, n) = 2
    /\ \E a, b \in 1..Len(model.nodes) : a # b /\ model.nodes[a].event = model.nodes[b].event

\* C13: every node found in a child list reachable from the root is the node the
\* index maps its event id to, and an id once mapped to a node keeps mapping to
\* that node.
C13_IndexOwnsNodes ==
    [][/\ \A p \in Below(model', get_root(model'), 0) :
            model'.event_map[hash(model'.nodes[p[1]].event)] = p[1]
       /\ \A id \in DOMAIN model.event_map :
            id \in DOMAIN model'.event_map /\ model'.event_map[id] = model.event_map[id]]_vars

IsPrefix(s, t) == Len(s) <= Len(t) /\ SubSeq(t, 1, Len(s)) = s

\* C14: every attach leaves the elements of every child list and their order
\* unchanged, and each node it creates is appended at the end of the child list of
\* exactly one node, the one indexed under its previous_event_hash.
C14_ChildListsAppendOnly ==
    [][/\ \A n \in 1..Len(model.nodes) :
            IsPrefix(model.nodes[n].children, model'.nodes[n].children)
       /\ \A k \in (Len(model.nodes) + 1)..Len(model'.nodes) :
            LET parent == model.event_map[model'.nodes[k].event.previous_event_hash]
                list == model'.nodes[parent].children
            IN /\ {n \in 1..Len(model'.nodes) : k \in Range(model'.nodes[n].children)} = {parent}
               /\ list[Len(list)] = k
               /\ Len(list) = Len(model.nodes[parent].children) + 1]_vars

\* C14 witness: a child list of two nodes or more, and a second non-empty child list.
C14_Witness ==
    \E a, b \in 1..Len(model.nodes) :
        a # b /\ Len(model.nodes[a].children) >= 2 /\ Len(model.nodes[b].children) >= 1

\* C15: a pass attaches only the orphans whose parent id was in the index when the
\* pass began: a child attached before its parent is not attached by the pass that
\* attaches the parent, and stays in the buffer for a later pass.
C15_SinglePassKeepsGrandchild ==
    \A child \in Universe : \A parent \in Universe :
        (/\ child.previous_event_hash = hash(parent)
         /\ hash(parent) \notin DOMAIN model.event_map
         /\ parent.previous_event_hash \in DOMAIN model.event_map)
        => LET pass == add(add(model, child), parent)
           IN /\ hash(parent) \in DOMAIN pass.event_map
              /\ hash(child) \notin DOMAIN pass.event_map
              /\ child \in Range(pass.orphans)

\* C16: for any two indexed nodes ancestor_depth(a, b) panics nowhere and returns a
\* number of lock-step parent steps after which both walks are at one common node.
C16_AncestorDepthDefined ==
    \A a, b \in Indexed(model) :
        LET depth == find_ancestor_depth(model, a, b)
        IN /\ depth # Panic
           /\ Ancestor(model, a, depth) = Ancestor(model, b, depth)

\* The leaves below node in the order a depth-first traversal meets them, each
\* child list visited in its order.
RECURSIVE DfsLeaves(_, _), DfsList(_, _, _)
DfsList(m, children, k) ==
    IF k > Len(children) THEN <<>>
    ELSE DfsLeaves(m, children[k]) \o DfsList(m, children, k + 1)

DfsLeaves(m, node) ==
    IF m.nodes[node].children = <<>> THEN <<node>> ELSE DfsList(m, m.nodes[node].children, 1)

\* The position of a leaf in that order.
Position(m, leaf) ==
    LET order == DfsLeaves(m, get_root(m))
    IN CHOOSE i \in 1..Len(order) : order[i] = leaf

\* The deepest leaves whose timestamp no other deepest leaf exceeds.
TopLeaves(m) ==
    {n \in DeepestLeaves(m) :
        \A o \in DeepestLeaves(m) : m.nodes[o].event.timestamp <= m.nodes[n].event.timestamp}

\* Attaching event to m creates a leaf that equals the head of m in depth and timestamp.
AddsTyingLeaf(m, event) ==
    /\ event.timestamp = m.nodes[find_head(m)].event.timestamp
    /\ event.previous_event_hash \in DOMAIN m.event_map
    /\ LET after == add(m, event)
           leaf == Len(after.nodes)
       IN /\ Len(after.nodes) = Len(m.nodes) + 1
          /\ after.nodes[leaf].event = event
          /\ <<leaf, MaxLeafDepth(m)>> \in Below(after, get_root(after), 0)

\* C19 as stated: among the leaves tied on depth and timestamp head() is the one the
\* depth-first traversal meets first, and attaching a new leaf that only equals the
\* head in depth and timestamp leaves head() unchanged.
C19_TyingLeafKeepsHead ==
    /\ \A n \in TopLeaves(model) : Position(model, find_head(model)) <= Position(model, n)
    /\ find_head(model) \in TopLeaves(model)
    /\ \A event \in Universe :
        AddsTyingLeaf(model, event) => find_head(add(model, event)) = find_head(model)

\* C19 amended: head() is the first such leaf met, and a new leaf that only equals
\* the head in depth and timestamp leaves head() unchanged exactly when the
\* traversal meets it after the head; met before the head, it becomes the head.
C19_FirstTyingLeafIsHead ==
    /\ \A n \in TopLeaves(model) : Position(model, find_head(model)) <= Position(model, n)
    /\ find_head(model) \in TopLeaves(model)
    /\ \A event \in Universe :
        AddsTyingLeaf(model, event) =>
            LET after == add(model, event)
                leaf == Len(after.nodes)
            IN find_head(after) =
                IF Position(after, leaf) > Position(after, find_head(model))
                THEN find_head(model) ELSE leaf

\* C19 witness: two leaves or more tie on depth and timestamp, two edges or more
\* below the root, and the latest of them did not replace the head.
C19_Witness ==
    /\ Cardinality(TopLeaves(model)) >= 2
    /\ MaxLeafDepth(model) >= 2
    /\ Len(model.nodes) \in TopLeaves(model)
    /\ find_head(model) # Len(model.nodes)

\* C20: for every node with a non-empty child list, find_longest_chain, called as
\* the traversal from the root calls it or with i = 0, fails none of assert_ne and
\* the two expects, and returns a node and a depth of at least i + 1.
C20_FoldAssertionsHold ==
    /\ \A p \in Below(model, get_root(model), 0) :
        /\ ~ChainPanics(model, p[1], p[2])
        /\ model.nodes[p[1]].children # <<>> =>
            LET r == find_longest_chain(model, p[1], p[2])
            IN r[1] >= p[2] + 1 /\ r[2] # None
    /\ \A n \in 1..Len(model.nodes) : ~ChainPanics(model, n, 0)

\* C20 witness: a node has two children whose subtrees return the same depth, so
\* the equal-depth branch reads current_node.
C20_Witness ==
    \E n \in 1..Len(model.nodes) :
        LET children == model.nodes[n].children
        IN /\ Len(children) >= 2
           /\ find_longest_chain(model, children[1], 1)[1] = find_longest_chain(model, children[2], 1)[1]
           /\ model.nodes[children[1]].children # <<>>

\* The lock of the node's child list is held by no task.
Free(node) == \A l \in lock : l[1] # node

\* The innermost call of find_longest_chain of traversal t.
Top(t) == trav[t].stack[Len(trav[t].stack)]

Tasks == Traversals \cup {Writer}

Held(owner) == {l[1] : l \in {x \in lock : x[2] = owner}}

Holder(node) == CHOOSE owner \in Tasks : <<node, owner>> \in lock

\* The node whose lock the task is at lock().await for, None when it is not.
Awaits(a) ==
    IF a = Writer THEN (IF writer.pc = "push" THEN writer.parent ELSE None)
    ELSE IF trav[a].pc = "lock" THEN Top(a).parent_node ELSE None

Waiting(a) == Awaits(a) # None /\ ~Free(Awaits(a))

\* The task is inside find_longest_chain or inside the attach of an orphan.
Running(a) ==
    IF a = Writer THEN writer.pc \in {"push", "locked", "insert"}
    ELSE trav[a].pc \in {"lock", "return"}

\* A lock is held by one task; a traversal holds the locks of the calls that are
\* past their lock().await, each on a child of the one before and the first on the
\* root, so the lock it waits for is of a node whose ancestors it holds; the
\* writer holds the lock of the parent while it pushes and none while it waits.
LockOrder ==
    /\ \A a, b \in lock : a[1] = b[1] => a = b
    /\ \A t \in Traversals :
          LET stack == trav[t].stack
              past == IF trav[t].pc = "lock" THEN Len(stack) - 1 ELSE Len(stack)
          IN /\ Held(t) = {stack[j].parent_node : j \in 1..past}
             /\ stack # <<>> => stack[1].parent_node = get_root(model)
             /\ \A j \in 2..Len(stack) :
                   model.nodes[stack[j].parent_node].parent = stack[j - 1].parent_node
    /\ Held(Writer) = IF writer.pc = "locked" THEN {writer.parent} ELSE {}

\* Following, from a task, the holder of the lock it waits for, at most n times,
\* ends at a task that runs and waits for nothing.
RECURSIVE WaitEnds(_, _)
WaitEnds(a, n) ==
    IF Waiting(a) THEN n > 0 /\ WaitEnds(Holder(Awaits(a)), n - 1)
    ELSE Running(a)

NoWaitCycle == \A a \in Tasks : Waiting(a) => WaitEnds(a, Cardinality(Tasks))

\* C17: with one writer and concurrent head traversals no deadlock is reachable:
\* a child-list lock is acquired only while holding the locks of the node's
\* ancestors (a traversal) or no lock (the writer), no task waits in a cycle, and
\* with the finite set of events every traversal and every attach that has begun
\* completes: from some point on none is left running.
Completed ==
    /\ \A t \in Traversals : trav[t].pc \in {"idle", "done"}
    /\ writer.pc = "idle"

C17_NoDeadlock == [](LockOrder /\ NoWaitCycle) /\ <>[]Completed

\* One traversal waits for a lock another holds, which waits for the lock the
\* writer holds while it pushes.
C17_Witness ==
    \E t, u \in Traversals :
        /\ Waiting(t) /\ Holder(Awaits(t)) = u
        /\ Waiting(u) /\ Holder(Awaits(u)) = Writer

\* C18: a head traversal interleaved with the attach calls of one writer returns
\* (d, n) where n had an empty child list when the traversal read it, d is n's
\* number of edges from the root, and d is at least the maximum leaf depth of the
\* graph when the traversal started and at most the one when it finished.
C18_TraversalResult ==
    \A t \in Traversals :
        /\ trav[t].pc # "panic"
        /\ trav[t].pc = "done" =>
              LET d == trav[t].result[1]
                  n == trav[t].result[2]
              IN /\ n \in trav[t].readEmpty
                 /\ <<n, d>> \in Below(model, get_root(model), 0)
                 /\ d = find_height(model, n)
                 /\ trav[t].startMax <= d
                 /\ d <= trav[t].endMax

\* A traversal returned a leaf attached after it started, while a deeper leaf was
\* attached before it finished.
C18_Witness ==
    \E t \in Traversals :
        /\ trav[t].pc = "done"
        /\ trav[t].startMax < trav[t].result[1]
        /\ trav[t].result[1] < trav[t].endMax

\* ---------------------------------------------------------- specification
Init ==
    /\ \E now \in GenesisTimes : model = new(now) /\ peer = new(now)
    /\ attached = [model |-> {}, peer |-> {}]
    /\ wire = <<>>
    /\ sent = <<>>
    /\ decoded = <<>>
    /\ lock = {}
    /\ trav = [t \in Traversals |->
                [pc |-> "idle", stack |-> <<>>, result |-> <<0, None>>,
                 startMax |-> 0, endMax |-> 0, readEmpty |-> {}]]
    /\ writer = [pc |-> "idle", orphans |-> <<>>, parent |-> None, node |-> None, id |-> <<>>]

\* model.add(event).await
Add(event) ==
    /\ Len(model.nodes) < MaxNodes
    /\ model' = add(model, event)
    /\ UNCHANGED <<peer, attached, wire, sent, decoded, lock, trav, writer>>

Next == \E event \in Universe : Add(event)

Spec == Init /\ [][Next]_vars

\* Two replicas created with the same genesis, each passed events in its own order.
ReplicaAdd(event) ==
    /\ Len(model.nodes) < MaxReplicaNodes
    /\ Cardinality(attached.model \cup {event}) < MaxReplicaNodes
    /\ model' = add(model, event)
    /\ attached' = [attached EXCEPT !.model = @ \cup {event}]
    /\ UNCHANGED <<peer, wire, sent, decoded, lock, trav, writer>>

PeerAdd(event) ==
    /\ Len(peer.nodes) < MaxReplicaNodes
    /\ Cardinality(attached.peer \cup {event}) < MaxReplicaNodes
    /\ peer' = add(peer, event)
    /\ attached' = [attached EXCEPT !.peer = @ \cup {event}]
    /\ UNCHANGED <<model, wire, sent, decoded, lock, trav, writer>>

NextReplicas == \E event \in ReplicaEvents : ReplicaAdd(event) \/ PeerAdd(event)

SpecReplicas == Init /\ [][NextReplicas]_vars

\* The codec: an event is encoded onto the wire, the bytes may be damaged, and the
\* bytes are decoded.
EncodeEvent(event) ==
    /\ wire' = encode(event)
    /\ sent' = <<event>>
    /\ decoded' = <<>>
    /\ UNCHANGED <<model, peer, attached, lock, trav, writer>>

\* The type id byte of the encoded action is overwritten.
CorruptTypeId(b) ==
    /\ sent # <<>>
    /\ wire = encode(sent[1])
    /\ wire' = [wire EXCEPT ![HashLen + 1] = b]
    /\ decoded' = <<>>
    /\ UNCHANGED <<model, peer, attached, sent, lock, trav, writer>>

\* The wire loses its last bytes.
Truncate(n) ==
    /\ sent # <<>>
    /\ wire = encode(sent[1])
    /\ wire' = SubSeq(wire, 1, n)
    /\ decoded' = <<>>
    /\ UNCHANGED <<model, peer, attached, sent, lock, trav, writer>>

DecodeWire ==
    /\ sent # <<>>
    /\ decoded = <<>>
    /\ decoded' = <<decode(wire)>>
    /\ UNCHANGED <<model, peer, attached, wire, sent, lock, trav, writer>>

NextCodec ==
    \/ \E event \in CodecEvents : EncodeEvent(event)
    \/ \E b \in BadTypeIds : CorruptTypeId(b)
    \/ \E n \in {0, HashLen, HashLen + 1, HashLen + 3} : Truncate(n)
    \/ DecodeWire

SpecCodec == Init /\ [][NextCodec]_vars

\* One writer running add and the tasks of Traversals running find_head on the same
\* store. A step of a task is the acquisition or the release of a lock, or a change
\* of the table, with the task's own computation up to its next such step.
\* find_head is called: get_root, then find_longest_chain(root, 0) reaches its
\* lock().await.
FindHead(t) ==
    /\ trav[t].pc = "idle"
    /\ trav' = [trav EXCEPT ![t] = [@ EXCEPT !.pc = "lock",
                                              !.stack = <<Frame(get_root(model), 0)>>,
                                              !.startMax = MaxLeafDepth(model)]]
    /\ UNCHANGED <<model, peer, attached, wire, sent, decoded, lock, writer>>

\* parent_node.children.lock().await returns: with no child the call is about to
\* return, otherwise the for loop starts.
LockChildren(t) ==
    /\ trav[t].pc = "lock"
    /\ Free(Top(t).parent_node)
    /\ lock' = Acquire(lock, Top(t).parent_node, t)
    /\ trav' = [trav EXCEPT ![t] = LoopOn(model, @)]
    /\ UNCHANGED <<model, peer, attached, wire, sent, decoded, writer>>

\* What a call that returns r, having read the child lists of read empty, leaves of
\* the traversal. When the traversal is over the maximum leaf depth of the graph at
\* that time is recorded, and of the nodes read empty only the one returned.
Returned(t, r, read) ==
    LET after == ReturnTo(model, trav[t], r)
    IN IF after.pc = "done"
       THEN [after EXCEPT !.endMax = MaxLeafDepth(model), !.readEmpty = read \cap {r[2]}]
       ELSE [after EXCEPT !.readEmpty = read]

\* children.is_empty(): the call returns (i, parent_node) and drops its guard.
ReturnLeaf(t) ==
    /\ trav[t].pc = "return"
    /\ model.nodes[Top(t).parent_node].children = <<>>
    /\ LET f == Top(t)
           after == Returned(t, <<f.i, f.parent_node>>, trav[t].readEmpty \cup {f.parent_node})
       IN /\ trav' = [trav EXCEPT ![t] = after]
          /\ lock' = IF after.pc = "panic" THEN ReleaseAll(lock, t)
                     ELSE Release(lock, f.parent_node, t)
    /\ UNCHANGED <<model, peer, attached, wire, sent, decoded, writer>>

\* The for loop is over: assert_ne!(current_max, 0), then the call returns
\* (current_max, current_node) and drops its guard.
ReturnMax(t) ==
    /\ trav[t].pc = "return"
    /\ model.nodes[Top(t).parent_node].children # <<>>
    /\ LET f == Top(t)
           panics == f.current_max = 0 \/ f.current_node = None
           after == IF panics THEN [trav[t] EXCEPT !.pc = "panic", !.stack = <<>>]
                    ELSE Returned(t, <<f.current_max, f.current_node>>, trav[t].readEmpty)
       IN /\ trav' = [trav EXCEPT ![t] = after]
          /\ lock' = IF after.pc = "panic" THEN ReleaseAll(lock, t)
                     ELSE Release(lock, f.parent_node, t)
    /\ UNCHANGED <<model, peer, attached, wire, sent, decoded, writer>>

\* model.add(event): the orphan is pushed and reorganize takes it. With no parent
\* in the table it is dropped; otherwise the node is built and the writer reaches
\* parent.children.lock().await. The writer carries the hash of the node's event,
\* the key of the insert, from here.
AddCall(event) ==
    /\ writer.pc = "idle"
    /\ Len(model.nodes) < MaxConcurrentNodes
    /\ IF event.previous_event_hash \notin DOMAIN model.event_map
       THEN model' = add(model, event) /\ UNCHANGED writer
       ELSE /\ writer' = [pc |-> "push", orphans |-> <<event>>,
                          parent |-> model.event_map[event.previous_event_hash],
                          node |-> None, id |-> hash(event)]
            /\ UNCHANGED model
    /\ UNCHANGED <<peer, attached, wire, sent, decoded, lock, trav>>

\* parent.children.lock().await returns.
PushLock ==
    /\ writer.pc = "push"
    /\ Free(writer.parent)
    /\ lock' = Acquire(lock, writer.parent, Writer)
    /\ writer' = [writer EXCEPT !.pc = "locked"]
    /\ UNCHANGED <<model, peer, attached, wire, sent, decoded, trav>>

\* .push(node.clone()); the guard is dropped at the end of the statement.
Push ==
    /\ writer.pc = "locked"
    /\ model' = PushChild(model, writer.parent, writer.orphans[1])
    /\ lock' = Release(lock, writer.parent, Writer)
    /\ writer' = [writer EXCEPT !.pc = "insert", !.node = Len(model.nodes) + 1]
    /\ UNCHANGED <<peer, attached, wire, sent, decoded, trav>>

\* self.event_map.insert(node.event.hash(), node); the loop and add are over.
Insert ==
    /\ writer.pc = "insert"
    /\ model' = IndexNode(model, writer.id, writer.node)
    /\ writer' = [pc |-> "idle", orphans |-> <<>>, parent |-> None, node |-> None, id |-> <<>>]
    /\ UNCHANGED <<peer, attached, wire, sent, decoded, lock, trav>>

TraversalStep(t) == LockChildren(t) \/ ReturnLeaf(t) \/ ReturnMax(t)

WriterStep == PushLock \/ Push \/ Insert

NextConcurrent ==
    \/ \E t \in Traversals : FindHead(t) \/ TraversalStep(t)
    \/ \E event \in ConcurrentEvents : AddCall(event)
    \/ WriterStep

\* The executor does not idle while a task is ready: some task that can take a
\* step takes one. Nothing obliges a task to call find_head or add.
TaskStep == WriterStep \/ \E t \in Traversals : TraversalStep(t)

SpecConcurrent == Init /\ [][NextConcurrent]_vars /\ WF_vars(TaskStep)

====
